---- MODULE Spec2Model ----
(***************************************************************************)
(* Model of the code-generation relay of src/src/index.ts:                 *)
(*   - the POST /api/generate handler (validation, prompt assembly, the    *)
(*     awaited backend call, fence cleanup, error mapping), run by several *)
(*     requests in flight at once (specification Spec);                    *)
(*   - the fence cleanup of the handler as a pure function on texts        *)
(*     (specification SanSpec).                                            *)
(* A text is a sequence of one-character strings.                          *)
(***************************************************************************)
EXTENDS Integers, Sequences, FiniteSets, TLC

VARIABLES
    \* ---- the handler, per request
    pc,         \* where each request's handler is: idle, awaiting, settled, done
    body,       \* request.body of each request
    calls,      \* the prompts each request sent to model.generateContent
    settle,     \* how each request's backend call settled
    responses,  \* the HTTP responses each request received
    overlapped, \* a backend call was made while another request was in flight
    \* ---- the fence cleanup taken alone
    raw,        \* the raw text handed to the cleanup
    fenceTag,   \* for an input built as a fenced block: its opening tag
    fenceCode,  \* for an input built as a fenced block: the code inside
    kind,       \* how the input was built: "free" or "fenced"
    out1,       \* the cleanup of raw
    out2,       \* the cleanup of out1
    spc         \* input, once, twice

httpVars == <<pc, body, calls, settle, responses, overlapped>>
sanVars == <<raw, fenceTag, fenceCode, kind, out1, out2, spc>>
vars == <<pc, body, calls, settle, responses, overlapped, raw, fenceTag, fenceCode, kind, out1, out2, spc>>

(***************************************************************************)
(* Bounds                                                                  *)
(***************************************************************************)
\* tokens per free raw text
MaxToks == 5
\* tokens per CODE of a fenced block
MaxCodeToks == 4
\* prior turns per conversationHistory
MaxTurns == 2

(***************************************************************************)
(* Characters and texts                                                    *)
(***************************************************************************)
\* the backtick character (the lexer admits no backtick inside a string)
BT == "BT"
NL == "\n"
SP == " "

Fence == <<BT, BT, BT>>
typescript == <<"t", "y", "p", "e", "s", "c", "r", "i", "p", "t">>
tsx == <<"t", "s", "x">>
jsx == <<"j", "s", "x">>
javascript == <<"j", "a", "v", "a", "s", "c", "r", "i", "p", "t">>

\* the alternation (?:typescript|tsx|jsx|javascript), in the regex's order
LangTags == <<typescript, tsx, jsx, javascript>>

\* what String.prototype.trim removes, among the characters of the model
WhiteSpace == {SP, NL}

StartsWithAt(s, i, p) ==
    /\ i + Len(p) - 1 <= Len(s)
    /\ \A k \in 1..Len(p) : s[i + k - 1] = p[k]

SetMin(S) == CHOOSE x \in S : \A y \in S : x <= y

(***************************************************************************)
(* The fence cleanup (index.ts 71-77)                                      *)
(***************************************************************************)

\* Faulty variant: the tag alternation lost (the regex written as /```\n?/g).
NoTagLenAt(s, j) == 0

\* (?:typescript|tsx|jsx|javascript)? at position j: the length of the first
\* alternative that matches there, 0 when none does (the group is optional and
\* nothing after it can fail, so the regex never backtracks into it).
TagLenAt(s, j) ==
    LET hits == {k \in 1..Len(LangTags) : StartsWithAt(s, j, LangTags[k])}
    IN  IF hits = {} THEN 0 ELSE Len(LangTags[SetMin(hits)])

\* Faulty variant: the regex written with two backticks.
TwoTicksAt(s, i) == StartsWithAt(s, i, <<BT, BT>>)

\* the literal ``` of both regexes at position i
FenceAt(s, i) == StartsWithAt(s, i, Fence)

\* /```(?:typescript|tsx|jsx|javascript)?\n?/ matching at i (FenceAt(s, i)):
\* the position right after the match
FenceMatchEnd(s, i) ==
    LET j == i + Len(Fence) + TagLenAt(s, i + Len(Fence))
    IN  IF j <= Len(s) /\ s[j] = NL THEN j + 1 ELSE j

RECURSIVE ReplaceAllFrom(_, _)
\* String.prototype.replace with a /g regex and "": scan from i, drop every
\* match, resume right after it, copy every other character.
ReplaceAllFrom(s, i) ==
    IF i > Len(s) THEN <<>>
    ELSE IF FenceAt(s, i) THEN ReplaceAllFrom(s, FenceMatchEnd(s, i))
    ELSE <<s[i]>> \o ReplaceAllFrom(s, i + 1)

\* Faulty variant: the /g flag lost, only the first match is replaced.
ReplaceFirstFence(s) ==
    LET at == {i \in 1..Len(s) : FenceAt(s, i)}
    IN  IF at = {} THEN s
        ELSE LET i == SetMin(at)
             IN  SubSeq(s, 1, i - 1) \o SubSeq(s, FenceMatchEnd(s, i), Len(s))

\* generatedCode.replace(/```(?:typescript|tsx|jsx|javascript)?\n?/g, "")
ReplaceFences(s) == ReplaceAllFrom(s, 1)

\* /```\n?$/ matching at i: ``` and then the end of the text, or a newline and
\* the end of the text ($ without the m flag is the end of the input).
TrailingFenceAt(s, i) ==
    /\ FenceAt(s, i)
    /\ \/ i + Len(Fence) = Len(s) + 1
       \/ i + Len(Fence) = Len(s) /\ s[Len(s)] = NL

\* generatedCode.replace(/```\n?$/g, ""): the leftmost match runs to the end of
\* the text, so it is the only one.
ReplaceTrailingFence(s) ==
    LET at == {i \in 1..Len(s) : TrailingFenceAt(s, i)}
    IN  IF at = {} THEN s ELSE SubSeq(s, 1, SetMin(at) - 1)

\* generatedCode.trim()
Trim(s) ==
    LET keep == {i \in 1..Len(s) : s[i] \notin WhiteSpace}
    IN  IF keep = {} THEN <<>>
        ELSE SubSeq(s, SetMin(keep), CHOOSE x \in keep : \A y \in keep : y <= x)

\* Faulty variant: the text trimmed before the fences are removed, not after.
SanitizeTrimFirst(s) == ReplaceTrailingFence(ReplaceFences(Trim(s)))

\* the three statements of index.ts 72-77 in order
Sanitize(s) == Trim(ReplaceTrailingFence(ReplaceFences(s)))

(***************************************************************************)
(* Inputs of the cleanup                                                   *)
(***************************************************************************)
\* the pieces raw texts are put together from
Tokens == {<<BT>>, Fence, <<NL>>, <<SP>>, <<"a">>, tsx, <<"t", "s">>}

\* the opening markers of a fenced block: no tag, or one of the four
OpenTags == {<<>>, tsx, jsx, javascript, typescript}

TokSeqs(n) == UNION {[1..k -> Tokens] : k \in 0..n}

RECURSIVE Flatten(_)
Flatten(ts) == IF ts = <<>> THEN <<>> ELSE Head(ts) \o Flatten(Tail(ts))

\* a run of three backticks somewhere in s
HasTripleBacktick(s) ==
    \E i \in 1..Len(s) - 2 : s[i] = BT /\ s[i + 1] = BT /\ s[i + 2] = BT

IsTrimmed(s) ==
    s = <<>> \/ (s[1] \notin WhiteSpace /\ s[Len(s)] \notin WhiteSpace)

RawInputs == {Flatten(ts) : ts \in TokSeqs(MaxToks)}

CodeInputs ==
    {c \in {Flatten(ts) : ts \in TokSeqs(MaxCodeToks)} :
        ~HasTripleBacktick(c) /\ IsTrimmed(c)}

\* ```TAG\nCODE\n```
Wrap(tag, code) == Fence \o tag \o <<NL>> \o code \o <<NL>> \o Fence

\* the requests in flight
Requests == {"r1", "r2"}

(***************************************************************************)
(* JavaScript values of a request body                                     *)
(***************************************************************************)
Undef == [t |-> "undefined", v |-> "undefined"]
Null == [t |-> "null", v |-> "null"]
Str(s) == [t |-> "string", v |-> s]
Num(n) == [t |-> "number", v |-> n]
\* a conversation turn {role, content}
Turn(role, content) == [t |-> "object", role |-> role, content |-> content]
Arr(xs) == [t |-> "array", v |-> xs]
\* a parsed body object; an absent property reads as undefined
Obj(message, history) == [t |-> "object", message |-> message, conversationHistory |-> history]

\* the turns a history is made of: two well-formed ones, a number, null
GoodTurns == {Turn("user", "make a button"), Turn("assistant", "done")}
Turns == GoodTurns \cup {Num("7"), Null}

Histories(S) == {Arr(xs) : xs \in UNION {[1..k -> S] : k \in 0..MaxTurns}}

\* conversationHistory: absent, null, a string, a number, an array of turns
HistoryValues == {Undef, Null, Str("abc"), Num("5")} \cup Histories(Turns)

\* message: absent, empty, or a text
MessageValues == {Undef, Str(""), Str("a card")}

\* request.body: none at all (undefined), the JSON null, or an object
Bodies == {Undef, Null} \cup {Obj(m, h) : m \in MessageValues, h \in HistoryValues}

\* what the backend may answer: texts, and errors with their messages
BackendTexts ==
    { Fence \o tsx \o <<NL, "a", NL>> \o Fence,
      <<"a", NL>> \o Fence \o <<NL, "b">>,
      <<SP, BT, "a", BT, NL>> }
BackendErrors == {"quota exceeded", "fetch failed"}

\* generateContent resolves with a text, rejects with an error, or resolves
\* with a response whose text() throws
Outcomes ==
    {[k |-> "text", text |-> x, message |-> ""] : x \in BackendTexts}
    \cup {[k |-> "rejected", text |-> <<>>, message |-> m] : m \in BackendErrors}
    \cup {[k |-> "badresponse", text |-> <<>>, message |-> "response was blocked"]}
NoOutcome == [k |-> "none", text |-> <<>>, message |-> ""]

(***************************************************************************)
(* The handler of POST /api/generate (index.ts 43-91)                      *)
(***************************************************************************)
SYSTEM_PROMPT == "You are an expert React and shadcn/ui developer. ..."

\* a value inside a template literal: ${v}
ToStr(v) == IF v.t = "undefined" THEN "undefined" ELSE v.v

\* msg.role, msg.content: a property read; a number has neither
Prop(msg, name) ==
    IF msg.t = "object"
    THEN Str(IF name = "role" THEN msg.role ELSE msg.content)
    ELSE Undef

\* const { message, conversationHistory = [] } = request.body throws a
\* TypeError when request.body is undefined or null
DestructureThrows(b) == b.t \in {"undefined", "null"}

\* the default applies to undefined only
HistoryOf(b) ==
    IF b.conversationHistory.t = "undefined" THEN Arr(<<>>) ELSE b.conversationHistory

\* !message
MessageFalsy(b) == b.message.t \in {"undefined", "null"} \/ b.message = Str("")

\* conversationHistory.length > 0; a number has no length (undefined > 0 is
\* false); reading .length of null throws before this is decided
LengthPositive(h) ==
    CASE h.t = "array" -> Len(h.v) > 0
      [] h.t = "string" -> h.v # ""
      [] OTHER -> FALSE

\* lines 56-62 throw a TypeError: .length of null, forEach of a non-array,
\* .role of a null or undefined turn
HistoryThrows(h) ==
    \/ h.t = "null"
    \/ h.t # "array" /\ LengthPositive(h)
    \/ h.t = "array" /\ \E i \in 1..Len(h.v) : h.v[i].t \in {"null", "undefined"}

\* the message of the TypeError thrown before the backend is called
TypeErrorOf(b) ==
    IF DestructureThrows(b)
    THEN "Cannot destructure property 'message' of 'request.body'"
    ELSE IF HistoryOf(b).t = "null" THEN "Cannot read properties of null (reading 'length')"
    ELSE IF HistoryOf(b).t # "array" THEN "conversationHistory.forEach is not a function"
    ELSE "Cannot read properties of null (reading 'role')"

\* the pieces `${msg.role}: ${msg.content}\n` adds to the prompt
Line(msg) == <<ToStr(Prop(msg, "role")), ": ", ToStr(Prop(msg, "content")), "\n">>

\* Faulty variant: the turns appended newest first.
LinesReversed(turns) ==
    Flatten([i \in 1..Len(turns) |-> Line(turns[Len(turns) + 1 - i])])

\* conversationHistory.forEach(...): the lines of the turns, in order
Lines(turns) == Flatten([i \in 1..Len(turns) |-> Line(turns[i])])

\* fullPrompt of lines 54-64, as the sequence of the pieces concatenated
FullPrompt(b) ==
    LET h == HistoryOf(b)
    IN  <<SYSTEM_PROMPT, "\n\n">>
        \o (IF LengthPositive(h)
            THEN <<"Previous conversation:\n">> \o Lines(h.v) \o <<"\n">>
            ELSE <<>>)
        \o <<"User request: ", ToStr(b.message), "\n\nGenerate the Next.js component code:">>

\* reply.code(400).send({ error: "Message is required" })
Reply400 == [status |-> 400, error |-> "Message is required", details |-> "", code |-> <<>>]

\* Faulty variant: the cause dropped from the 500 body.
Reply500NoDetails(m) ==
    [status |-> 500, error |-> "Failed to generate code", details |-> "", code |-> <<>>]

\* reply.code(500).send({ error: "Failed to generate code", details: error.message })
Reply500(m) ==
    [status |-> 500, error |-> "Failed to generate code", details |-> m, code |-> <<>>]

\* return { code: generatedCode, timestamp } (the timestamp is left out)
Reply200(text) == [status |-> 200, error |-> "", details |-> "", code |-> Sanitize(text)]

\* The request arrives and the handler runs up to its first await: it answers
\* 400 or 500 at once, or calls model.generateContent(fullPrompt) and waits.
Receive(r) ==
    /\ pc[r] = "idle"
    /\ \E b \in Bodies :
        /\ body' = [body EXCEPT ![r] = b]
        /\ IF DestructureThrows(b)
           THEN /\ responses' = [responses EXCEPT ![r] = Append(@, Reply500(TypeErrorOf(b)))]
                /\ pc' = [pc EXCEPT ![r] = "done"]
                /\ UNCHANGED <<calls, overlapped>>
           ELSE IF MessageFalsy(b)
           THEN /\ responses' = [responses EXCEPT ![r] = Append(@, Reply400)]
                /\ pc' = [pc EXCEPT ![r] = "done"]
                /\ UNCHANGED <<calls, overlapped>>
           ELSE IF HistoryThrows(HistoryOf(b))
           THEN /\ responses' = [responses EXCEPT ![r] = Append(@, Reply500(TypeErrorOf(b)))]
                /\ pc' = [pc EXCEPT ![r] = "done"]
                /\ UNCHANGED <<calls, overlapped>>
           ELSE /\ calls' = [calls EXCEPT ![r] = Append(@, FullPrompt(b))]
                /\ pc' = [pc EXCEPT ![r] = "awaiting"]
                /\ overlapped' =
                     (overlapped \/ \E q \in Requests \ {r} : pc[q] \in {"awaiting", "settled"})
                /\ UNCHANGED responses
    /\ UNCHANGED settle
    /\ UNCHANGED sanVars

\* The backend settles the call of request r: a text, a rejection, or a
\* response whose text() throws.
BackendSettles(r) ==
    /\ pc[r] = "awaiting"
    /\ \E o \in Outcomes : settle' = [settle EXCEPT ![r] = o]
    /\ pc' = [pc EXCEPT ![r] = "settled"]
    /\ UNCHANGED <<body, calls, responses, overlapped>>
    /\ UNCHANGED sanVars

\* Faulty variant: the result kept in one place shared by all requests, so a handler
\* that resumes reads the other request's result when that one has settled.
AwaitedShared(r) ==
    IF \E q \in Requests \ {r} : settle[q].k # "none"
    THEN settle[CHOOSE q \in Requests \ {r} : settle[q].k # "none"]
    ELSE settle[r]

\* what the handler of r gets from its own await
Awaited(r) == settle[r]

\* Faulty variant: a failed call is made again.
RetryOnError(r, m) ==
    /\ calls' = [calls EXCEPT ![r] = Append(@, FullPrompt(body[r]))]
    /\ pc' = [pc EXCEPT ![r] = "awaiting"]
    /\ UNCHANGED responses

\* the catch block after a failed backend call
OnBackendError(r, m) ==
    /\ responses' = [responses EXCEPT ![r] = Append(@, Reply500(m))]
    /\ pc' = [pc EXCEPT ![r] = "done"]
    /\ UNCHANGED calls

\* The handler resumes after its await: lines 68-82 on a text, the catch
\* block on a rejection or on a text() that throws.
Resume(r) ==
    /\ pc[r] = "settled"
    /\ IF Awaited(r).k = "text"
       THEN /\ responses' = [responses EXCEPT ![r] = Append(@, Reply200(Awaited(r).text))]
            /\ pc' = [pc EXCEPT ![r] = "done"]
            /\ UNCHANGED calls
       ELSE OnBackendError(r, Awaited(r).message)
    /\ UNCHANGED <<body, settle, overlapped>>
    /\ UNCHANGED sanVars

(***************************************************************************)
(* The cleanup taken alone: draw a text, clean it, clean the result.       *)
(***************************************************************************)
HttpIdle ==
    /\ pc = [r \in Requests |-> "idle"]
    /\ body = [r \in Requests |-> Undef]
    /\ calls = [r \in Requests |-> <<>>]
    /\ settle = [r \in Requests |-> NoOutcome]
    /\ responses = [r \in Requests |-> <<>>]
    /\ overlapped = FALSE

SanInit ==
    /\ HttpIdle
    /\ \/ /\ kind = "free"
          /\ raw \in RawInputs
          /\ fenceTag = <<>>
          /\ fenceCode = <<>>
       \/ /\ kind = "fenced"
          /\ fenceTag \in OpenTags
          /\ fenceCode \in CodeInputs
          /\ raw = Wrap(fenceTag, fenceCode)
    /\ out1 = <<>>
    /\ out2 = <<>>
    /\ spc = "input"

\* the handler's cleanup applied to the backend's text
CleanOnce ==
    /\ spc = "input"
    /\ out1' = Sanitize(raw)
    /\ spc' = "once"
    /\ UNCHANGED <<raw, fenceTag, fenceCode, kind, out2>>
    /\ UNCHANGED httpVars

\* the cleanup applied to a text that is already cleaned
CleanTwice ==
    /\ spc = "once"
    /\ out2' = Sanitize(out1)
    /\ spc' = "twice"
    /\ UNCHANGED <<raw, fenceTag, fenceCode, kind, out1>>
    /\ UNCHANGED httpVars

SanNext == CleanOnce \/ CleanTwice

SanSpec == SanInit /\ [][SanNext]_vars

(***************************************************************************)
(* The server: every request in flight at once                             *)
(***************************************************************************)
Init ==
    /\ HttpIdle
    /\ raw = <<>>
    /\ fenceTag = <<>>
    /\ fenceCode = <<>>
    /\ kind = "free"
    /\ out1 = <<>>
    /\ out2 = <<>>
    /\ spc = "input"

Next == \E r \in Requests : Receive(r) \/ BackendSettles(r) \/ Resume(r)

Spec == Init /\ [][Next]_vars

(***************************************************************************)
(* Properties of the handler (checked under Spec)                          *)
(***************************************************************************)

\* the request carries no message: no body, or a body without one, or ""
MessageMissing(b) ==
    b.t # "object" \/ b.message.t = "undefined" \/ b.message = Str("")

\* C1: every request whose message is missing (absent or the empty string),
\* whatever else it carries, is answered 400 {error: "Message is required"}
\* and no backend call is made for it.
C1_MissingMessageIs400 ==
    \A r \in Requests :
        (pc[r] = "done" /\ MessageMissing(body[r])) =>
            /\ responses[r] =
                 <<[status |-> 400, error |-> "Message is required",
                    details |-> "", code |-> <<>>]>>
            /\ calls[r] = <<>>

BackendFailed(r) == settle[r].k \in {"rejected", "badresponse"}

\* C2: a request whose backend call failed with message m is answered 500 with
\* error "Failed to generate code" and details m, and never 200.
C2_BackendFailureIs500 ==
    \A r \in Requests :
        (pc[r] = "done" /\ BackendFailed(r)) =>
            /\ responses[r] =
                 <<[status |-> 500, error |-> "Failed to generate code",
                    details |-> settle[r].message, code |-> <<>>]>>
            /\ \A i \in 1..Len(responses[r]) : responses[r][i].status # 200

C2_Witness ==
    \E r \in Requests :
        /\ pc[r] = "done"
        /\ settle[r].k = "rejected"
        /\ settle[r].message = "quota exceeded"
        /\ Len(responses[r]) = 1

\* C3: no retry: a request makes at most one backend call, none after that
\* call failed, and receives exactly one response (none before its handler ends).
C3_NoRetry ==
    \A r \in Requests :
        /\ Len(calls[r]) <= 1
        /\ Len(responses[r]) = (IF pc[r] = "done" THEN 1 ELSE 0)
        /\ BackendFailed(r) => Len(calls[r]) = 1

C3_Witness ==
    \E r \in Requests :
        /\ pc[r] = "done"
        /\ BackendFailed(r)
        /\ Len(calls[r]) = 1
        /\ Len(responses[r]) = 1

\* a body the spec calls valid: a message, and no history or an array of
\* {role, content} turns
WellFormed(b) ==
    /\ b.t = "object"
    /\ b.message.t = "string" /\ b.message.v # ""
    /\ \/ b.conversationHistory.t = "undefined"
       \/ /\ b.conversationHistory.t = "array"
          /\ \A i \in 1..Len(b.conversationHistory.v) :
                b.conversationHistory.v[i] \in GoodTurns

PriorTurns(b) ==
    IF b.conversationHistory.t = "array" THEN b.conversationHistory.v ELSE <<>>

\* C8: the prompt of a valid request with N prior turns is the system
\* instruction, then (only when N > 0) a "Previous conversation" section of
\* exactly N lines, the i-th being role: content of the i-th turn, then the
\* user's message; with no turns it is the instruction and the message only.
C8_PromptAssembly ==
    \A r \in Requests :
        (calls[r] # <<>> /\ WellFormed(body[r])) =>
            LET p == calls[r][1]
                ts == PriorTurns(body[r])
                N == Len(ts)
                tail == <<"User request: ", body[r].message.v,
                          "\n\nGenerate the Next.js component code:">>
            IN  IF N = 0
                THEN /\ p = <<SYSTEM_PROMPT, "\n\n">> \o tail
                     /\ \A k \in 1..Len(p) : p[k] # "Previous conversation:\n"
                ELSE /\ Len(p) = 4 * N + 7
                     /\ p[1] = SYSTEM_PROMPT
                     /\ p[2] = "\n\n"
                     /\ p[3] = "Previous conversation:\n"
                     /\ \A i \in 1..N :
                            /\ p[4 * i] = ts[i].role
                            /\ p[4 * i + 1] = ": "
                            /\ p[4 * i + 2] = ts[i].content
                            /\ p[4 * i + 3] = "\n"
                     /\ p[4 * N + 4] = "\n"
                     /\ SubSeq(p, 4 * N + 5, 4 * N + 7) = tail

C8_Witness ==
    \E r \in Requests :
        /\ calls[r] # <<>>
        /\ WellFormed(body[r])
        /\ Len(PriorTurns(body[r])) = 2
        /\ PriorTurns(body[r])[1] # PriorTurns(body[r])[2]

\* what a request is answered, from its own body and its own outcome alone
OwnAnswer(b, o) ==
    IF b.t # "object"
    THEN [status |-> 500, error |-> "Failed to generate code",
          details |-> TypeErrorOf(b), code |-> <<>>]
    ELSE IF MessageFalsy(b)
    THEN [status |-> 400, error |-> "Message is required", details |-> "", code |-> <<>>]
    ELSE IF HistoryThrows(HistoryOf(b))
    THEN [status |-> 500, error |-> "Failed to generate code",
          details |-> TypeErrorOf(b), code |-> <<>>]
    ELSE IF o.k = "text"
    THEN [status |-> 200, error |-> "", details |-> "", code |-> Sanitize(o.text)]
    ELSE [status |-> 500, error |-> "Failed to generate code",
          details |-> o.message, code |-> <<>>]

\* C9: with several requests in flight, under every interleaving, each
\* request's prompt comes from its own body and its response from its own body
\* and the outcome of its own backend call: 200 with the cleaned text of its
\* own result, or 500 with its own failure's message.
C9_RequestsIndependent ==
    \A r \in Requests :
        /\ calls[r] # <<>> => calls[r] = <<FullPrompt(body[r])>>
        /\ pc[r] = "done" => responses[r] = <<OwnAnswer(body[r], settle[r])>>

C9_Witness ==
    /\ overlapped
    /\ pc["r1"] = "done" /\ pc["r2"] = "done"
    /\ settle["r1"].k = "text" /\ settle["r2"].k = "rejected"
    /\ body["r1"] # body["r2"]
    /\ responses["r1"][1].status = 200
    /\ responses["r2"][1].status = 500

\* C10: a 500 is answered only after a backend call of that request failed,
\* whatever the shape of the body; a request that fails before the backend is
\* called is answered 400.
C10_500OnlyAfterBackendFailure ==
    \A r \in Requests :
        /\ \A i \in 1..Len(responses[r]) :
              responses[r][i].status = 500 => (calls[r] # <<>> /\ BackendFailed(r))
        /\ (pc[r] = "done" /\ calls[r] = <<>>) => responses[r][1].status = 400

(***************************************************************************)
(* Properties of the fence cleanup (checked under SanSpec)                 *)
(***************************************************************************)

\* a fence marker at the very start: three backticks, an optional tag, a newline
StripLeadMarker(x) ==
    LET ms == {tag \in OpenTags : StartsWithAt(x, 1, Fence \o tag \o <<NL>>)}
    IN  IF ms = {} THEN x
        ELSE LET tag == CHOOSE tag \in ms : TRUE
             IN  SubSeq(x, Len(Fence) + Len(tag) + 2, Len(x))

\* a fence marker at the very end: three backticks, optionally after a newline
StripTrailMarker(x) ==
    LET n == Len(x)
    IN  IF n >= 4 /\ SubSeq(x, n - 3, n) = <<NL>> \o Fence THEN SubSeq(x, 1, n - 4)
        ELSE IF n >= 3 /\ SubSeq(x, n - 2, n) = Fence THEN SubSeq(x, 1, n - 3)
        ELSE x

\* o is x without its leading and trailing whitespace
IsTrimOf(o, x) ==
    \E i \in 1..Len(x) + 1 : \E j \in 0..Len(x) :
        /\ o = SubSeq(x, i, j)
        /\ \A k \in 1..i - 1 : x[k] \in WhiteSpace
        /\ \A k \in j + 1..Len(x) : x[k] \in WhiteSpace
        /\ IsTrimmed(o)

\* the text with just the marker at its start and the marker at its end removed
EdgeStripped(x) == StripTrailMarker(StripLeadMarker(x))

\* C4 as stated: the cleanup removes only a marker at the very start and a
\* marker at the very end, then trims; everything between them, interior
\* triple backticks included, is returned unchanged.
C4_OnlyEdgeMarkersRemoved ==
    spc # "input" => IsTrimOf(out1, EdgeStripped(raw))

\* C4 as amended: the cleanup removes every fence marker of the text, interior
\* ones included, then trims: its result is trimmed and holds no run of three
\* backticks, and when the text between the leading and the trailing marker
\* holds no run of three backticks the result is the trim of that text.
C4_AllMarkersRemoved ==
    spc # "input" =>
        /\ ~HasTripleBacktick(out1)
        /\ IsTrimmed(out1)
        /\ ~HasTripleBacktick(EdgeStripped(raw)) => IsTrimOf(out1, EdgeStripped(raw))

C4_Witness ==
    /\ spc = "once"
    /\ kind = "free"
    /\ StripLeadMarker(raw) # raw
    /\ HasTripleBacktick(EdgeStripped(raw))
    /\ ~IsTrimOf(out1, EdgeStripped(raw))
    /\ out1 # <<>>

\* C5: the cleanup is idempotent: cleaning a cleaned text changes nothing.
C5_Idempotent ==
    spc = "twice" => out2 = out1

C5_Witness ==
    /\ spc = "twice"
    /\ HasTripleBacktick(raw)
    /\ out1 # raw
    /\ out1 # <<>>
    /\ \E i \in 1..Len(out1) : out1[i] = BT

\* C6: on a text with no run of three backticks the cleanup only trims; tag
\* words and newlines inside the text stay.
C6_NoFenceIsTrim ==
    (spc # "input" /\ ~HasTripleBacktick(raw)) => IsTrimOf(out1, raw)

C6_Witness ==
    /\ spc = "once"
    /\ ~HasTripleBacktick(raw)
    /\ StartsWithAt(raw, 1, <<BT, BT>> \o tsx \o <<NL>>)
    /\ out1 # raw

\* C7: a fence-free, trimmed CODE wrapped as opening fence (no tag, tsx, jsx,
\* javascript or typescript), newline, CODE, newline, closing fence is cleaned
\* to exactly CODE.
C7_FenceStripping ==
    (spc # "input" /\ kind = "fenced") => out1 = fenceCode

C7_Witness ==
    /\ spc = "once"
    /\ kind = "fenced"
    /\ fenceTag = javascript
    /\ \E i \in 1..Len(fenceCode) : fenceCode[i] = BT
    /\ \E i \in 1..Len(fenceCode) : fenceCode[i] = NL
    /\ out1 = fenceCode

====
